---- MODULE Spec2Model ----
(***************************************************************************)
(* Markdown to Google Docs converter (src/markdown_to_google_doc.py).      *)
(*                                                                         *)
(* A text is a sequence of one-character strings.  The block parser, the   *)
(* insertion planner and the formatting planner are operators computed the *)
(* way the Python code computes them (loops as recursions, regular         *)
(* expressions as the matcher's greedy search with backtracking).  The     *)
(* orchestrator convert_to_google_doc is a state machine whose remote      *)
(* calls may each succeed or raise HttpError.                              *)
(*                                                                         *)
(* Three specifications share the variables:                               *)
(*   Spec        convert_to_google_doc end to end against the remote       *)
(*               document service;                                         *)
(*   SpecParse   parse_markdown and build_insert_requests on bounded       *)
(*               input texts;                                              *)
(*   SpecFormat  apply_formatting on bounded block sequences and remote    *)
(*               content listings (lengths may disagree).                  *)
(***************************************************************************)
EXTENDS Integers, Sequences, FiniteSets, TLC

VARIABLES
    md_text,          \* the markdown text given to convert_to_google_doc
    title_arg,        \* the title argument (None or a text)
    pc,               \* position of the run
    blocks,           \* result of parse_markdown
    insert_requests,  \* result of build_insert_requests
    calls,            \* remote calls issued so far, in order: [op, ok, ...]
    remote,           \* remote service: document id -> [body, styles]
    document_id,      \* identifier returned by create
    content,          \* body content listing returned by documents().get
    fmt_requests,     \* formatting requests built by apply_formatting
    returned,         \* value returned by convert_to_google_doc
    error,            \* exception raised during the run
    visited           \* run states passed through, in order

vars == <<md_text, title_arg, pc, blocks, insert_requests, calls, remote,
          document_id, content, fmt_requests, returned, error, visited>>

-----------------------------------------------------------------------------
(* Bounds of the model *)

MaxParseToks == 3    \* SpecParse: tokens per input text
MaxDocToks == 3      \* Spec: tokens per input text
MaxBlocks == 2       \* SpecFormat: blocks per sequence
MaxElems == 2        \* SpecFormat: elements per remote content listing
MaxLevel == 1        \* SpecFormat: nesting level of list blocks

-----------------------------------------------------------------------------
(* Python values and string helpers *)

None == "None"
Unset == "Unset"

INDENT_PT == 18

Min(S) == CHOOSE x \in S : \A y \in S : x <= y
Max(S) == CHOOSE x \in S : \A y \in S : x >= y

\* str.strip() and the regex class \s: whitespace characters of the alphabet
IsSpace(c) == c \in {" ", "\t", "\n", "\r"}

\* the regex "." : any character but a newline
IsDot(c) == c # "\n"

\* s[i:] of Python, for a 1-based position i
From(s, i) == SubSeq(s, i, Len(s))

LStrip(s) ==
    LET keep == {i \in 1..Len(s) : ~IsSpace(s[i])}
    IN IF keep = {} THEN <<>> ELSE From(s, Min(keep))

RStrip(s) ==
    LET keep == {i \in 1..Len(s) : ~IsSpace(s[i])}
    IN IF keep = {} THEN <<>> ELSE SubSeq(s, 1, Max(keep))

\* str.strip()
Strip(s) == LStrip(RStrip(s))

\* raw.lstrip(" ")
LStripBlanks(s) ==
    LET keep == {i \in 1..Len(s) : s[i] # " "}
    IN IF keep = {} THEN <<>> ELSE From(s, Min(keep))

\* text.rstrip("\n")
RStripNewlines(s) ==
    LET keep == {i \in 1..Len(s) : s[i] # "\n"}
    IN IF keep = {} THEN <<>> ELSE SubSeq(s, 1, Max(keep))

\* str.startswith
StartsWith(s, p) == Len(s) >= Len(p) /\ SubSeq(s, 1, Len(p)) = p

\* ASSIGNEE_RE class [^:\s]
IsNameChar(c) == c # ":" /\ ~IsSpace(c)

\* the regex character classes \s, . and [^:\s]
InClass(class, c) ==
    CASE class = "space" -> IsSpace(c)
      [] class = "dot" -> IsDot(c)
      [] class = "name" -> IsNameChar(c)

\* length of the run of characters of the class that starts at position i
RunLen(s, i, class) ==
    LET stop == {j \in i..Len(s) : ~InClass(class, s[j])}
    IN IF stop # {} THEN Min(stop) - i
       ELSE IF i <= Len(s) THEN Len(s) - i + 1 ELSE 0

\* str.splitlines(): split at "\n", "\r" and "\r\n"; no trailing empty line.
\* i is the position where the next line starts.
RECURSIVE SplitFrom(_, _, _)
SplitFrom(s, i, acc) ==
    IF i > Len(s) THEN acc
    ELSE LET brk == {j \in i..Len(s) : s[j] \in {"\n", "\r"}}
         IN IF brk = {} THEN Append(acc, From(s, i))
            ELSE LET j == Min(brk)
                     next == IF s[j] = "\r" /\ j < Len(s) /\ s[j + 1] = "\n"
                             THEN j + 2 ELSE j + 1
                 IN SplitFrom(s, next, Append(acc, SubSeq(s, i, j - 1)))

splitlines(s) == SplitFrom(s, 1, <<>>)

-----------------------------------------------------------------------------
(* Regular expressions.  A match is a record [ok, ...groups]; NoMatch has  *)
(* ok = FALSE.                                                             *)

NoMatch == [ok |-> FALSE]

IsHash(c) == c = "#"
IsMarker(c) == c \in {"-", "*"}

\* HEADING_RE = ^(#{1,3})\s+(.*)  matched at the start of s.
\* #{1,3} is greedy: 3, then 2, then 1 '#', the first count after which a
\* whitespace follows; \s+ takes the whole whitespace run; (.*) the rest of
\* the line.
HEADING_RE_quant == 3
HEADING_RE(s) ==
    LET ks == {k \in 1..HEADING_RE_quant :
                  /\ k + 1 <= Len(s)
                  /\ \A j \in 1..k : IsHash(s[j])
                  /\ IsSpace(s[k + 1])}
    IN IF ks = {} THEN NoMatch
       ELSE LET k == Max(ks)
                w == RunLen(s, k + 1, "space")
                d == RunLen(s, k + w + 1, "dot")
            IN [ok |-> TRUE,
                group1 |-> SubSeq(s, 1, k),
                group2 |-> SubSeq(s, k + w + 1, k + w + d)]

\* \s+(.+) matched at position i: \s+ is greedy and gives whitespace back
\* until a character is left for (.+), which then runs to the end of the line.
TailMatch(s, i) ==
    LET w == RunLen(s, i, "space")
        ws == {v \in 1..w : RunLen(s, i + v, "dot") >= 1}
    IN IF ws = {} THEN NoMatch
       ELSE LET v == Max(ws)
                d == RunLen(s, i + v, "dot")
            IN [ok |-> TRUE, group1 |-> SubSeq(s, i + v, i + v + d - 1)]

\* BULLET_RE = ^\s*[-*]\s+(.+)
BULLET_RE(s) ==
    LET p == RunLen(s, 1, "space")
    IN IF p + 1 <= Len(s) /\ IsMarker(s[p + 1])
       THEN TailMatch(s, p + 2)
       ELSE NoMatch

\* CHECKBOX_RE = ^\s*[-*]\s+\[ \]\s+(.+)
CHECKBOX_RE(s) ==
    LET p == RunLen(s, 1, "space")
        w == RunLen(s, p + 2, "space")
        b == p + 2 + w
    IN IF /\ p + 1 <= Len(s) /\ IsMarker(s[p + 1])
          /\ w >= 1
          /\ b + 2 <= Len(s)
          /\ SubSeq(s, b, b + 2) = <<"[", " ", "]">>
       THEN TailMatch(s, b + 3)
       ELSE NoMatch

-----------------------------------------------------------------------------
(* Block parser *)

HeadingType(level) ==
    CASE level = 1 -> "heading1"
      [] level = 2 -> "heading2"
      [] level = 3 -> "heading3"

\* leading = len(raw) - len(raw.lstrip(" ")); level = leading // 2
ListLevel(raw) == (Len(raw) - Len(LStripBlanks(raw))) \div 2

\* mutant: a blank line is skipped instead of becoming a blank block
ParseStep_dropBlank(acc, line) ==
    LET stripped == Strip(line)
        h == HEADING_RE(stripped)
        c == CHECKBOX_RE(line)
        b == BULLET_RE(line)
    IN IF stripped = <<>> \/ stripped = <<"-", "-", "-">>
       THEN acc
       ELSE IF h.ok
       THEN Append(acc, [type |-> HeadingType(Len(h.group1)),
                         text |-> Strip(h.group2)])
       ELSE IF c.ok
       THEN Append(acc, [type |-> "checkbox", text |-> Strip(c.group1),
                         level |-> ListLevel(line)])
       ELSE IF b.ok
       THEN Append(acc, [type |-> "bullet", text |-> Strip(b.group1),
                         level |-> ListLevel(line)])
       ELSE Append(acc, [type |-> "paragraph", text |-> stripped])

\* mutant: the regex groups are used without .strip()
ParseStep_unstripped(acc, line) ==
    LET stripped == Strip(line)
        h == HEADING_RE(stripped)
        c == CHECKBOX_RE(line)
        b == BULLET_RE(line)
    IN IF stripped = <<>> \/ stripped = <<"-", "-", "-">>
       THEN Append(acc, [type |-> "blank", text |-> <<>>])
       ELSE IF h.ok
       THEN Append(acc, [type |-> HeadingType(Len(h.group1)),
                         text |-> h.group2])
       ELSE IF c.ok
       THEN Append(acc, [type |-> "checkbox", text |-> c.group1,
                         level |-> ListLevel(line)])
       ELSE IF b.ok
       THEN Append(acc, [type |-> "bullet", text |-> b.group1,
                         level |-> ListLevel(line)])
       ELSE Append(acc, [type |-> "paragraph", text |-> stripped])

\* one iteration of the loop of parse_markdown: the blocks after `line`
ParseStep(acc, line) ==
    LET raw == line
        stripped == Strip(line)
        h == HEADING_RE(stripped)
        c == CHECKBOX_RE(raw)
        b == BULLET_RE(raw)
    IN IF stripped = <<>> \/ stripped = <<"-", "-", "-">>
       THEN Append(acc, [type |-> "blank", text |-> <<>>])
       ELSE IF h.ok
       THEN Append(acc, [type |-> HeadingType(Len(h.group1)),
                         text |-> Strip(h.group2)])
       ELSE IF c.ok
       THEN Append(acc, [type |-> "checkbox", text |-> Strip(c.group1),
                         level |-> ListLevel(raw)])
       ELSE IF b.ok
       THEN Append(acc, [type |-> "bullet", text |-> Strip(b.group1),
                         level |-> ListLevel(raw)])
       ELSE Append(acc, [type |-> "paragraph", text |-> stripped])

RECURSIVE ParseLoop(_, _, _)
ParseLoop(lines, i, acc) ==
    IF i > Len(lines) THEN acc
    ELSE ParseLoop(lines, i + 1, ParseStep(acc, lines[i]))

parse_markdown(text) == ParseLoop(splitlines(text), 1, <<>>)

\* extract_title: the first line whose stripped form is a depth-1 heading
RECURSIVE TitleLoop(_, _)
TitleLoop(lines, i) ==
    IF i > Len(lines)
    THEN <<"U", "n", "t", "i", "t", "l", "e", "d", " ",
           "D", "o", "c", "u", "m", "e", "n", "t">>
    ELSE LET m == HEADING_RE(Strip(lines[i]))
         IN IF m.ok /\ Len(m.group1) = 1 THEN Strip(m.group2)
            ELSE TitleLoop(lines, i + 1)

extract_title(text) == TitleLoop(splitlines(text), 1)

-----------------------------------------------------------------------------
(* Insertion planner *)

\* (block.get("text") or "") + "\n"
InsertText(block) ==
    (IF "text" \in DOMAIN block THEN block.text ELSE <<>>) \o <<"\n">>

\* mutant: the newline is left out of the running index
NextIndex_noNewline(index, text) == index + Len(text) - 1

\* index += len(text)
NextIndex(index, text) == index + Len(text)

RECURSIVE InsertLoop(_, _, _, _)
InsertLoop(bs, i, index, requests) ==
    IF i > Len(bs) THEN requests
    ELSE LET text == InsertText(bs[i])
         IN InsertLoop(bs, i + 1, NextIndex(index, text),
                       Append(requests, [index |-> index, text |-> text]))

\* mutant: the running index starts at 0
build_insert_requests_zeroBased(bs) == InsertLoop(bs, 1, 0, <<>>)

build_insert_requests(bs) == InsertLoop(bs, 1, 1, <<>>)

-----------------------------------------------------------------------------
(* Remote document service (the Google Docs API the code calls).  A body   *)
(* is the text of the document, position k holding the character at index  *)
(* k; a new document holds one empty paragraph.                            *)

NewBody == <<"\n">>

\* insertText at location.index: the text lands before the character at index
InsertAt(body, req) ==
    SubSeq(body, 1, req.index - 1) \o req.text \o From(body, req.index)

ValidInsert(body, req) == req.index >= 1 /\ req.index <= Len(body)

\* the requests of one batchUpdate, applied in order
RECURSIVE ApplyInserts(_, _, _)
ApplyInserts(body, requests, i) ==
    IF i > Len(requests) THEN body
    ELSE ApplyInserts(InsertAt(body, requests[i]), requests, i + 1)

RECURSIVE ValidInserts(_, _, _)
ValidInserts(body, requests, i) ==
    IF i > Len(requests) THEN TRUE
    ELSE /\ ValidInsert(body, requests[i])
         /\ ValidInserts(InsertAt(body, requests[i]), requests, i + 1)

\* width of a paragraph element in index units
ElementWidth(el) ==
    IF "textRun" \in DOMAIN el THEN Len(el.textRun.content) ELSE 1

RECURSIVE ElementsWidth(_, _)
ElementsWidth(els, i) ==
    IF i > Len(els) THEN 0 ELSE ElementWidth(els[i]) + ElementsWidth(els, i + 1)

\* the paragraphs of a body text, each ending with its newline, as the
\* structural elements documents().get lists after the section break
RECURSIVE BodyParagraphs(_, _, _)
BodyParagraphs(body, start, acc) ==
    LET nl == {j \in start..Len(body) : body[j] = "\n"}
    IN IF nl = {} THEN acc
       ELSE LET i == Min(nl)
            IN BodyParagraphs(body, i + 1,
                   Append(acc, [startIndex |-> start, endIndex |-> i + 1,
                                paragraph |-> [elements |->
                                    <<[textRun |->
                                        [content |->
                                            SubSeq(body, start, i)]]>>]]))

SectionBreak == [startIndex |-> 0, endIndex |-> 1, sectionBreak |-> TRUE]

\* doc.get("body", {}).get("content", []) of a document of the service
BodyContent(body) == <<SectionBreak>> \o BodyParagraphs(body, 1, <<>>)

-----------------------------------------------------------------------------
(* Formatting planner (apply_formatting).  Every request carries `pair`,   *)
(* the iteration i of the loop that appended it (not part of the request   *)
(* sent).                                                                  *)

\* paragraphs = [elem for elem in content if "paragraph" in elem]
RECURSIVE ParagraphLoop(_, _, _)
ParagraphLoop(elems, i, paragraphs) ==
    IF i > Len(elems) THEN paragraphs
    ELSE ParagraphLoop(elems, i + 1,
             IF "paragraph" \in DOMAIN elems[i]
             THEN Append(paragraphs,
                         [start |-> elems[i].startIndex,
                          end |-> elems[i].endIndex,
                          paragraph |-> elems[i].paragraph])
             ELSE paragraphs)

\* mutant: every content element is taken, paragraph or not
RECURSIVE UnfilteredLoop(_, _, _)
UnfilteredLoop(elems, i, paragraphs) ==
    IF i > Len(elems) THEN paragraphs
    ELSE UnfilteredLoop(elems, i + 1,
             Append(paragraphs,
                    [start |-> elems[i].startIndex,
                     end |-> elems[i].endIndex,
                     paragraph |-> IF "paragraph" \in DOMAIN elems[i]
                                   THEN elems[i].paragraph
                                   ELSE [elements |-> <<>>]]))

Paragraphs_unfiltered(elems) == UnfilteredLoop(elems, 1, <<>>)

Paragraphs(elems) == ParagraphLoop(elems, 1, <<>>)

\* n = min(len(blocks), len(paragraphs))
PairCount(bs, paragraphs) ==
    IF Len(bs) <= Len(paragraphs) THEN Len(bs) ELSE Len(paragraphs)

IsHeading(btype) == btype \in {"heading1", "heading2", "heading3"}

HeadingStyle(btype) ==
    IF btype = "heading2" THEN "HEADING_2"
    ELSE IF btype = "heading3" THEN "HEADING_3"
    ELSE "HEADING_1"

\* the two requests of a heading block
HeadingOps(i, block, start, end) ==
    << [pair |-> i, request |-> "updateParagraphStyle",
        startIndex |-> start, endIndex |-> end,
        namedStyleType |-> HeadingStyle(block.type),
        indentFirstLine |-> 0, indentStart |-> 0,
        fields |-> "namedStyleType,indentFirstLine,indentStart"],
       [pair |-> i, request |-> "deleteParagraphBullets",
        startIndex |-> start, endIndex |-> end] >>

\* the two requests of a bullet or checkbox block
ListOps(i, block, start, end) ==
    LET level == IF "level" \in DOMAIN block THEN block.level ELSE 0
    IN << [pair |-> i, request |-> "createParagraphBullets",
           startIndex |-> start, endIndex |-> end,
           bulletPreset |-> IF block.type = "checkbox"
                            THEN "BULLET_CHECKBOX"
                            ELSE "BULLET_DISC_CIRCLE_SQUARE"],
          [pair |-> i, request |-> "updateParagraphStyle",
           startIndex |-> start, endIndex |-> end,
           indentFirstLine |-> level * INDENT_PT,
           indentStart |-> (level + 1) * INDENT_PT,
           fields |-> "indentFirstLine,indentStart"] >>

StructuralOps(i, block, start, end) ==
    IF IsHeading(block.type) THEN HeadingOps(i, block, start, end)
    ELSE IF block.type \in {"bullet", "checkbox"}
    THEN ListOps(i, block, start, end)
    ELSE <<>>

\* text = "".join(textRun content of the paragraph's elements)
RECURSIVE ParagraphText(_, _)
ParagraphText(els, i) ==
    IF i > Len(els) THEN <<>>
    ELSE (IF "textRun" \in DOMAIN els[i] THEN els[i].textRun.content
          ELSE <<>>) \o ParagraphText(els, i + 1)

\* ASSIGNEE_RE = @[^:\s]+(?=:)
\* ASSIGNEE_RE.finditer(text) from 1-based position i: the matches as 0-based
\* [start, end) offsets; [^:\s]+ is greedy and must stop right before a ':'
RECURSIVE ASSIGNEE_RE_finditer(_, _)
ASSIGNEE_RE_finditer(text, i) ==
    LET ats == {j \in i..Len(text) : text[j] = "@"}
    IN IF ats = {} THEN <<>>
       ELSE LET a == Min(ats)
                r == RunLen(text, a + 1, "name")
            IN IF /\ r >= 1
                  /\ a + r + 1 <= Len(text)
                  /\ text[a + r + 1] = ":"
               THEN <<[start |-> a - 1, end |-> a + r]>>
                    \o ASSIGNEE_RE_finditer(text, a + r + 1)
               ELSE ASSIGNEE_RE_finditer(text, a + 1)

\* mutant: the match offsets are not shifted by the paragraph's start
AssigneeOps_relative(i, text, start) ==
    LET ms == ASSIGNEE_RE_finditer(text, 1)
    IN [k \in 1..Len(ms) |->
           [pair |-> i, request |-> "updateTextStyle",
            startIndex |-> ms[k].start,
            endIndex |-> ms[k].end,
            bold |-> TRUE, foregroundColor |-> "ASSIGNEE_COLOR",
            fields |-> "bold,foregroundColor"]]

\* one updateTextStyle request per assignee match
AssigneeOps(i, text, start) ==
    LET ms == ASSIGNEE_RE_finditer(text, 1)
    IN [k \in 1..Len(ms) |->
           [pair |-> i, request |-> "updateTextStyle",
            startIndex |-> start + ms[k].start,
            endIndex |-> start + ms[k].end,
            bold |-> TRUE, foregroundColor |-> "ASSIGNEE_COLOR",
            fields |-> "bold,foregroundColor"]]

IsFooter(stripped) ==
    \/ StartsWith(stripped, <<"M", "e", "e", "t", "i", "n", "g", " ",
                              "r", "e", "c", "o", "r", "d", "e", "d", " ",
                              "b", "y", ":">>)
    \/ StartsWith(stripped, <<"D", "u", "r", "a", "t", "i", "o", "n", ":">>)

\* the footer request, over the text without its trailing newlines
FooterOps(i, text, start) ==
    LET length == Len(RStripNewlines(text))
    IN IF IsFooter(Strip(text)) /\ length # 0
       THEN << [pair |-> i, request |-> "updateTextStyle",
                startIndex |-> start, endIndex |-> start + length,
                italic |-> TRUE, foregroundColor |-> "FOOTER_COLOR",
                fields |-> "italic,foregroundColor"] >>
       ELSE <<>>

\* text-level requests of a paragraph; none when its text is blank
TextOps(i, text, start) ==
    IF Strip(text) = <<>> THEN <<>>
    ELSE AssigneeOps(i, text, start) \o FooterOps(i, text, start)

\* mutant: the text-level requests are appended before the structural ones
FormatStep_textFirst(requests, i, block, p) ==
    requests
      \o TextOps(i, ParagraphText(p.paragraph.elements, 1), p.start)
      \o StructuralOps(i, block, p.start, p.end)

\* one iteration of the loop of apply_formatting, for 0-based i
FormatStep(requests, i, block, p) ==
    requests
      \o StructuralOps(i, block, p.start, p.end)
      \o TextOps(i, ParagraphText(p.paragraph.elements, 1), p.start)

RECURSIVE FormatLoop(_, _, _, _, _)
FormatLoop(bs, paragraphs, i, n, requests) ==
    IF i >= n THEN requests
    ELSE FormatLoop(bs, paragraphs, i + 1, n,
                    FormatStep(requests, i, bs[i + 1], paragraphs[i + 1]))

\* the requests apply_formatting builds from the blocks and the fetched content
FormatRequests(bs, elems) ==
    LET paragraphs == Paragraphs(elems)
    IN FormatLoop(bs, paragraphs, 0, PairCount(bs, paragraphs), <<>>)

-----------------------------------------------------------------------------
(* Inputs *)

RECURSIVE Flatten(_, _)
Flatten(ts, i) == IF i > Len(ts) THEN <<>> ELSE ts[i] \o Flatten(ts, i + 1)

\* the texts made of at most n tokens of T
TokenTexts(T, n) ==
    {Flatten(ts, 1) : ts \in UNION {[1..k -> T] : k \in 0..n}}

ParseTokens ==
    { <<"#", " ">>, <<"#">>, <<"#", "#", "#">>, <<"-", " ">>, <<"-">>,
      <<"*", " ">>, <<"[", " ", "]", " ">>, <<"[", " ", "]">>, <<" ">>,
      <<" ", " ">>, <<"\t">>, <<"a">>, <<"a", "\n">>, <<"\n">>, <<"\r">> }

ParseTexts == TokenTexts(ParseTokens, MaxParseToks)

DocTokens ==
    { <<"\n">>, <<"b">>, <<" ">>, <<"#", " ">>, <<"-", " ">>,
      <<"[", " ", "]", " ">>, <<"@", "a">>, <<":">>,
      <<"D", "u", "r", "a", "t", "i", "o", "n", ":">>,
      <<"M", "e", "e", "t", "i", "n", "g", " ", "r", "e", "c", "o", "r",
        "d", "e", "d", " ", "b", "y", ":">> }

DocTexts == TokenTexts(DocTokens, MaxDocToks)

Titles == {None, <<"T">>}

DocIds == {"doc1", "doc2"}

-----------------------------------------------------------------------------
(* Orchestrator: convert_to_google_doc *)

Goto(state) == pc' = state /\ visited' = Append(visited, state)

\* mutant: the call is outside the try block, the exception is not caught
HttpErrorExit_uncaught(call) ==
    /\ calls' = Append(calls, call)
    /\ error' = "HttpError"
    /\ returned' = returned
    /\ Goto("Raised")

\* except HttpError: the failed call is recorded, the run returns None
HttpErrorExit(call) ==
    /\ calls' = Append(calls, call)
    /\ error' = "HttpError"
    /\ returned' = None
    /\ Goto("Failed")

Init ==
    /\ md_text \in DocTexts
    /\ title_arg \in Titles
    /\ pc = "Unauthenticated"
    /\ blocks = <<>>
    /\ insert_requests = <<>>
    /\ calls = <<>>
    /\ remote = <<>>
    /\ document_id = None
    /\ content = <<>>
    /\ fmt_requests = <<>>
    /\ returned = Unset
    /\ error = None
    /\ visited = <<"Unauthenticated">>

\* service = get_docs_service(), called before the try block: an exception
\* of authenticate_user / google.auth.default / build leaves
\* convert_to_google_doc without a return value
GetDocsService ==
    /\ pc = "Unauthenticated"
    /\ \/ Goto("Authenticated") /\ error' = error
       \/ Goto("Raised") /\ error' = "AuthError"
    /\ UNCHANGED <<md_text, title_arg, blocks, insert_requests, calls, remote,
                   document_id, content, fmt_requests, returned>>

\* doc = service.documents().create(body={"title": title}).execute()
CreateDocument ==
    /\ pc = "Authenticated"
    /\ LET title == IF title_arg = None THEN extract_title(md_text)
                    ELSE title_arg
       IN \/ \E id \in DocIds \ DOMAIN remote :
               /\ calls' = Append(calls, [op |-> "create", ok |-> TRUE,
                                          title |-> title, id |-> id])
               /\ remote' = (id :> [title |-> title, body |-> NewBody,
                                    styles |-> <<>>]) @@ remote
               /\ document_id' = id
               /\ Goto("DocumentCreated")
               /\ UNCHANGED <<returned, error>>
          \/ /\ HttpErrorExit([op |-> "create", ok |-> FALSE,
                               title |-> title])
             /\ UNCHANGED <<remote, document_id>>
    /\ UNCHANGED <<md_text, title_arg, blocks, insert_requests, content,
                   fmt_requests>>

\* blocks = parse_markdown(md_text); insert_requests = build_insert_requests;
\* service.documents().batchUpdate(insert_requests).execute()
\* A failed batch leaves the document as it was.
InsertContent ==
    /\ pc = "DocumentCreated"
    /\ blocks' = parse_markdown(md_text)
    /\ insert_requests' = build_insert_requests(blocks')
    /\ \/ /\ ValidInserts(remote[document_id].body, insert_requests', 1)
          /\ calls' = Append(calls, [op |-> "insert", ok |-> TRUE,
                                     id |-> document_id])
          /\ remote' = [remote EXCEPT ![document_id].body =
                            ApplyInserts(@, insert_requests', 1)]
          /\ Goto("ContentInserted")
          /\ UNCHANGED <<returned, error>>
       \/ /\ HttpErrorExit([op |-> "insert", ok |-> FALSE,
                            id |-> document_id])
          /\ UNCHANGED remote
    /\ UNCHANGED <<md_text, title_arg, document_id, content, fmt_requests>>

\* apply_formatting up to its batchUpdate: documents().get, then the plan
FetchAndPlan ==
    /\ pc = "ContentInserted"
    /\ \/ /\ calls' = Append(calls, [op |-> "get", ok |-> TRUE,
                                     id |-> document_id])
          /\ content' = BodyContent(remote[document_id].body)
          /\ fmt_requests' = FormatRequests(blocks, content')
          /\ Goto("Fetched")
          /\ UNCHANGED <<returned, error>>
       \/ /\ HttpErrorExit([op |-> "get", ok |-> FALSE, id |-> document_id])
          /\ UNCHANGED <<content, fmt_requests>>
    /\ UNCHANGED <<md_text, title_arg, blocks, insert_requests, remote,
                   document_id>>

\* mutant: the batch is submitted without the `if requests:` test
SubmitFormatting_always ==
    /\ pc = "Fetched"
    /\ \/ /\ calls' = Append(calls, [op |-> "format", ok |-> TRUE,
                                     id |-> document_id])
          /\ remote' = [remote EXCEPT ![document_id].styles = fmt_requests]
          /\ Goto("Formatted")
          /\ UNCHANGED <<returned, error>>
       \/ /\ HttpErrorExit([op |-> "format", ok |-> FALSE,
                            id |-> document_id])
          /\ UNCHANGED remote
    /\ UNCHANGED <<md_text, title_arg, blocks, insert_requests, document_id,
                   content, fmt_requests>>

\* if requests: service.documents().batchUpdate(requests).execute()
SubmitFormatting ==
    /\ pc = "Fetched"
    /\ \/ /\ fmt_requests # <<>>
          /\ calls' = Append(calls, [op |-> "format", ok |-> TRUE,
                                     id |-> document_id])
          /\ remote' = [remote EXCEPT ![document_id].styles = fmt_requests]
          /\ Goto("Formatted")
          /\ UNCHANGED <<returned, error>>
       \/ /\ fmt_requests # <<>>
          /\ HttpErrorExit([op |-> "format", ok |-> FALSE,
                            id |-> document_id])
          /\ UNCHANGED remote
       \/ /\ fmt_requests = <<>>
          /\ Goto("Formatted")
          /\ UNCHANGED <<calls, remote, returned, error>>
    /\ UNCHANGED <<md_text, title_arg, blocks, insert_requests, document_id,
                   content, fmt_requests>>

\* return document_id
ReturnDocumentId ==
    /\ pc = "Formatted"
    /\ returned' = document_id
    /\ Goto("Done")
    /\ UNCHANGED <<md_text, title_arg, blocks, insert_requests, calls, remote,
                   document_id, content, fmt_requests, error>>

Next ==
    \/ GetDocsService
    \/ CreateDocument
    \/ InsertContent
    \/ FetchAndPlan
    \/ SubmitFormatting
    \/ ReturnDocumentId

Spec == Init /\ [][Next]_vars

-----------------------------------------------------------------------------
(* SpecParse: parse_markdown and build_insert_requests on bounded texts *)

InitParse ==
    /\ md_text \in ParseTexts
    /\ title_arg = None
    /\ pc = "parse"
    /\ blocks = <<>>
    /\ insert_requests = <<>>
    /\ calls = <<>>
    /\ remote = <<>>
    /\ document_id = None
    /\ content = <<>>
    /\ fmt_requests = <<>>
    /\ returned = Unset
    /\ error = None
    /\ visited = <<>>

ParseMarkdown ==
    /\ pc = "parse"
    /\ blocks' = parse_markdown(md_text)
    /\ pc' = "parsed"
    /\ UNCHANGED <<md_text, title_arg, insert_requests, calls, remote,
                   document_id, content, fmt_requests, returned, error,
                   visited>>

BuildInsertRequests ==
    /\ pc = "parsed"
    /\ insert_requests' = build_insert_requests(blocks)
    /\ pc' = "planned"
    /\ UNCHANGED <<md_text, title_arg, blocks, calls, remote, document_id,
                   content, fmt_requests, returned, error, visited>>

NextParse == ParseMarkdown \/ BuildInsertRequests

SpecParse == InitParse /\ [][NextParse]_vars

-----------------------------------------------------------------------------
(* SpecFormat: apply_formatting on bounded blocks and content listings *)

SeqsUpTo(S, n) == UNION {[1..k -> S] : k \in 0..n}

FormatBlocks ==
    { [type |-> "blank", text |-> <<>>],
      [type |-> "heading1", text |-> <<"a">>],
      [type |-> "heading2", text |-> <<"a">>],
      [type |-> "heading3", text |-> <<"a">>],
      [type |-> "paragraph", text |-> <<"a">>] }
    \cup { [type |-> t, text |-> <<"a">>, level |-> l] :
              t \in {"bullet", "checkbox"}, l \in 0..MaxLevel }

\* paragraphs of a listing, as their elements
Run(text) == [textRun |-> [content |-> text]]

FormatParagraphs ==
    { << Run(<<"\n">>) >>,
      << Run(<<"b", "\n">>) >>,
      << Run(<<"@", "a">>), Run(<<":", " ", "@", "b", ":", "\n">>) >>,
      << Run(<<"D", "u", "r", "a", "t", "i", "o", "n", ":", " ", "@", "a",
               ":", "\n">>) >>,
      << [inlineObjectElement |-> TRUE],
         Run(<<" ", "M", "e", "e", "t", "i", "n", "g", " ", "r", "e", "c",
               "o", "r", "d", "e", "d", " ", "b", "y", ":", "\n">>) >> }

\* shapes of the elements of a listing: a section break or a paragraph
FormatShapes ==
    {[kind |-> "sectionBreak"]}
    \cup {[kind |-> "paragraph", elements |-> els] : els \in FormatParagraphs}

\* the listing of the given shapes, with contiguous index ranges from `at`
RECURSIVE Listing(_, _, _)
Listing(shapes, i, at) ==
    IF i > Len(shapes) THEN <<>>
    ELSE IF shapes[i].kind = "sectionBreak"
    THEN <<[startIndex |-> at, endIndex |-> at + 1, sectionBreak |-> TRUE]>>
         \o Listing(shapes, i + 1, at + 1)
    ELSE LET w == ElementsWidth(shapes[i].elements, 1)
         IN <<[startIndex |-> at, endIndex |-> at + w,
               paragraph |-> [elements |-> shapes[i].elements]]>>
            \o Listing(shapes, i + 1, at + w)

InitFormat ==
    /\ md_text = <<>>
    /\ title_arg = None
    /\ pc = "format"
    /\ blocks \in SeqsUpTo(FormatBlocks, MaxBlocks)
    /\ \E shapes \in SeqsUpTo(FormatShapes, MaxElems) :
           content = Listing(shapes, 1, 0)
    /\ insert_requests = <<>>
    /\ calls = <<>>
    /\ remote = <<>>
    /\ document_id = None
    /\ fmt_requests = <<>>
    /\ returned = Unset
    /\ error = None
    /\ visited = <<>>

PlanFormatting ==
    /\ pc = "format"
    /\ fmt_requests' = FormatRequests(blocks, content)
    /\ pc' = "formatted"
    /\ UNCHANGED <<md_text, title_arg, blocks, insert_requests, calls, remote,
                   document_id, content, returned, error, visited>>

NextFormat == PlanFormatting

SpecFormat == InitFormat /\ [][NextFormat]_vars

-----------------------------------------------------------------------------
(* Properties of the orchestrator (Spec) *)

FailedCalls == {j \in 1..Len(calls) : ~calls[j].ok}

CallOps == [j \in 1..Len(calls) |-> calls[j].op]

IsPrefix(a, b) == Len(a) <= Len(b) /\ SubSeq(b, 1, Len(a)) = a

CallOrder == <<"create", "insert", "get", "format">>

RunStates == <<"Unauthenticated", "Authenticated", "DocumentCreated",
               "ContentInserted", "Fetched", "Formatted", "Done">>

C2_HappyPath ==
    (error = None /\ FailedCalls = {}) =>
        /\ IsPrefix(CallOps, CallOrder)
        /\ IsPrefix(visited, RunStates)
        /\ pc = visited[Len(visited)]
        /\ pc \in {"Unauthenticated", "Authenticated", "DocumentCreated",
                  "ContentInserted", "Fetched", "Formatted", "Done"}
        /\ pc = "DocumentCreated" =>
              ValidInserts(remote[document_id].body,
                           build_insert_requests(parse_markdown(md_text)), 1)
        /\ pc \in {"Formatted", "Done"} =>
              CallOps = IF fmt_requests = <<>>
                        THEN <<"create", "insert", "get">>
                        ELSE CallOrder
        /\ pc = "Done" =>
              /\ visited = RunStates
              /\ calls[1].ok /\ returned = calls[1].id
              /\ returned \in DocIds

\* C2 witness: a run that ended Done after all four calls
C2_Witness ==
    /\ pc = "Done" /\ CallOps = CallOrder /\ FailedCalls = {}
    /\ returned = document_id /\ fmt_requests # <<>>

\* C3: when authentication fails the run takes the failure exit: it ends
\* Failed, returns None and has issued no document-service call.
C3_AuthFailureExit ==
    error = "AuthError" =>
        pc = "Failed" /\ returned = None /\ calls = <<>>

\* the text of the i-th newline-terminated paragraph of a body
NewlinesBefore(body, p) == Cardinality({q \in 1..(p - 1) : body[q] = "\n"})

NthNewline(body, i) ==
    CHOOSE p \in 1..Len(body) :
        body[p] = "\n" /\ NewlinesBefore(body, p) = i - 1

NthParagraph(body, i) ==
    SubSeq(body,
           IF i = 1 THEN 1 ELSE NthNewline(body, i - 1) + 1,
           NthNewline(body, i) - 1)

InsertSucceeded == \E j \in 1..Len(calls) : calls[j].op = "insert" /\ calls[j].ok

IsParagraphElem(e) == "paragraph" \in DOMAIN e

\* C7: after the insertion batch is applied to the new document, its i-th
\* paragraph holds exactly the text of the i-th block, for every block; so
\* does the i-th paragraph element of the listing fetched afterwards.
C7_LineIndexParity ==
    InsertSucceeded =>
        LET body == remote[document_id].body
            ps == SelectSeq(content, IsParagraphElem)
        IN /\ NewlinesBefore(body, Len(body) + 1) >= Len(blocks)
           /\ \A i \in 1..Len(blocks) :
                 NthParagraph(body, i) = blocks[i].text
           /\ content # <<>> =>
                 /\ Len(ps) >= Len(blocks)
                 /\ \A i \in 1..Len(blocks) :
                       ParagraphText(ps[i].paragraph.elements, 1)
                           = blocks[i].text \o <<"\n">>

\* C7 witness: three blocks, blank and non-blank, inserted and fetched
C7_Witness ==
    /\ pc = "Fetched"
    /\ Len(blocks) = 3
    /\ blocks[1].type = "blank" /\ blocks[2].type = "blank"
    /\ blocks[3].text # <<>>
    /\ Len(remote[document_id].body) > 3

\* C10: every formatting request targets a range inside the remote paragraph
\* of its pair: a paragraph-level request has exactly the paragraph's range;
\* a text-level request has a non-empty range inside it when the paragraph's
\* text has length end - start, an assignee range covering "@name" right
\* before a colon and a footer range starting at the paragraph's start and
\* covering the text without its newline.
C10_RangesContained ==
    \A k \in 1..Len(fmt_requests) :
        LET op == fmt_requests[k]
            p == SelectSeq(content, IsParagraphElem)[op.pair + 1]
            text == ParagraphText(p.paragraph.elements, 1)
            s == op.startIndex - p.startIndex
            e == op.endIndex - p.startIndex
        IN IF op.request # "updateTextStyle"
           THEN op.startIndex = p.startIndex /\ op.endIndex = p.endIndex
           ELSE Len(text) = p.endIndex - p.startIndex =>
                  /\ p.startIndex <= op.startIndex
                  /\ op.startIndex < op.endIndex
                  /\ op.endIndex <= p.endIndex
                  /\ "bold" \in DOMAIN op =>
                        /\ text[s + 1] = "@"
                        /\ \A j \in (s + 2)..e : IsNameChar(text[j])
                        /\ text[e + 1] = ":"
                  /\ "italic" \in DOMAIN op =>
                        s = 0 /\ e = Len(RStripNewlines(text))

\* C10 witness: a fetched plan with a footer request and, further into the
\* same paragraph, an assignee request
C10_Witness ==
    /\ pc = "Fetched"
    /\ \E j, k \in 1..Len(fmt_requests) :
          /\ "bold" \in DOMAIN fmt_requests[j]
          /\ "italic" \in DOMAIN fmt_requests[k]
          /\ fmt_requests[j].startIndex > fmt_requests[k].startIndex
          /\ fmt_requests[j].endIndex < fmt_requests[k].endIndex

-----------------------------------------------------------------------------
(* Properties of the parser and the insertion planner (SpecParse) *)

\* the positions ending a line terminator: "\n", or "\r" not followed by "\n"
LineEnds(s) ==
    {i \in 1..Len(s) :
        \/ s[i] = "\n"
        \/ s[i] = "\r" /\ ~(i < Len(s) /\ s[i + 1] = "\n")}

\* number of lines of a text: terminated lines plus an unterminated last one
LineCount(s) ==
    Cardinality(LineEnds(s))
        + (IF Len(s) > 0 /\ Len(s) \notin LineEnds(s) THEN 1 ELSE 0)

NthLineEnd(s, i) ==
    CHOOSE p \in LineEnds(s) : Cardinality({q \in LineEnds(s) : q < p}) = i - 1

\* the i-th line of a text, without its terminator
SourceLine(s, i) ==
    LET first == IF i = 1 THEN 1 ELSE NthLineEnd(s, i - 1) + 1
        last == IF i > Cardinality(LineEnds(s)) THEN Len(s)
                ELSE LET p == NthLineEnd(s, i)
                     IN IF s[p] = "\n" /\ p > first /\ s[p - 1] = "\r"
                        THEN p - 2 ELSE p - 1
    IN SubSeq(s, first, last)

IsBlankLine(line) == Strip(line) \in {<<>>, <<"-", "-", "-">>}

\* C4: parse_markdown returns one block per line of the text, in line order;
\* the i-th block is the block of the i-th line alone; a blank or "---" line
\* gives a blank block with empty text.
C4_OneBlockPerLine ==
    pc \in {"parsed", "planned"} =>
        /\ Len(blocks) = LineCount(md_text)
        /\ \A i \in 1..Len(blocks) :
              LET line == SourceLine(md_text, i)
              IN /\ <<blocks[i]>> = ParseStep(<<>>, line)
                 /\ IsBlankLine(line) <=>
                        blocks[i] = [type |-> "blank", text |-> <<>>]

\* C4 witness: three lines, the middle one blank, parsed into three blocks
C4_Witness ==
    /\ pc = "parsed"
    /\ LineCount(md_text) = 3
    /\ IsBlankLine(SourceLine(md_text, 2))
    /\ ~IsBlankLine(SourceLine(md_text, 1))
    /\ ~IsBlankLine(SourceLine(md_text, 3))
    /\ Len(blocks) = 3

RECURSIVE OffsetOf(_, _)
\* 1 + sum(Lj + 1 for j < i), for 1-based i
OffsetOf(bs, i) ==
    IF i = 1 THEN 1 ELSE OffsetOf(bs, i - 1) + Len(bs[i - 1].text) + 1

\* C5: build_insert_requests emits one insertion per block in block order;
\* the i-th offset is 1 + sum(Lj + 1 for j < i); offsets increase strictly and
\* the ranges [offset_i, offset_i + Li + 1) are pairwise disjoint.
C5_InsertionOffsets ==
    pc = "planned" =>
        /\ Len(insert_requests) = Len(blocks)
        /\ \A i \in 1..Len(blocks) :
              /\ insert_requests[i].text = blocks[i].text \o <<"\n">>
              /\ insert_requests[i].index = OffsetOf(blocks, i)
        /\ \A i, j \in 1..Len(insert_requests) :
              i < j =>
                  /\ insert_requests[i].index < insert_requests[j].index
                  /\ insert_requests[i].index + Len(blocks[i].text) + 1
                         <= insert_requests[j].index

\* C5 witness: a plan of three insertions with a blank block in front
C5_Witness ==
    /\ pc = "planned"
    /\ Len(insert_requests) = 3
    /\ blocks[1].type = "blank"
    /\ blocks[2].text # <<>>
    /\ insert_requests[3].index = Len(blocks[2].text) + 3

NoEdgeSpace(t) == t = <<>> \/ (~IsSpace(t[1]) /\ ~IsSpace(t[Len(t)]))

StartsWithListMarker(t) == Len(t) >= 2 /\ IsMarker(t[1]) /\ IsSpace(t[2])

IsListType(btype) == btype \in {"bullet", "checkbox"}

\* C9 as stated: a heading's text does not start with '#', a bullet's or
\* checkbox's text does not start with a list marker or with "[ ]", and no
\* block's text has leading or trailing whitespace.
C9_NoMarkerAtStart ==
    \A i \in 1..Len(blocks) :
        LET b == blocks[i]
        IN /\ IsHeading(b.type) => ~StartsWith(b.text, <<"#">>)
           /\ IsListType(b.type) =>
                 /\ ~StartsWithListMarker(b.text)
                 /\ ~StartsWith(b.text, <<"[", " ", "]">>)
           /\ NoEdgeSpace(b.text)

HeadingLevel(btype) ==
    CASE btype = "heading1" -> 1 [] btype = "heading2" -> 2
      [] btype = "heading3" -> 3

\* the line without its indentation and its own marker, trimmed
WithoutMarker(btype, line) ==
    LET s == Strip(line)
        r == LStrip(line)
        m == LStrip(From(r, 2))
    IN CASE btype = "blank" -> <<>>
         [] IsHeading(btype) -> Strip(From(s, HeadingLevel(btype) + 1))
         [] btype = "bullet" -> Strip(From(r, 2))
         [] btype = "checkbox" -> Strip(From(m, 4))
         [] btype = "paragraph" -> s

\* the line carries the marker of the block type
HasMarker(btype, line) ==
    LET s == Strip(line)
        r == LStrip(line)
        m == LStrip(From(r, 2))
        k == HeadingLevel(btype)
    IN CASE btype = "blank" -> IsBlankLine(line)
         [] IsHeading(btype) ->
                /\ Len(s) > k
                /\ \A j \in 1..k : s[j] = "#"
                /\ IsSpace(s[k + 1])
         [] IsListType(btype) ->
                /\ Len(r) >= 2 /\ IsMarker(r[1]) /\ IsSpace(r[2])
                /\ btype = "checkbox" =>
                      /\ StartsWith(m, <<"[", " ", "]">>)
                      /\ Len(m) >= 4 /\ IsSpace(m[4])
         [] btype = "paragraph" -> TRUE

\* C9 amended: the text of a block is its line without the indentation, the
\* line's own marker (the run of 1-3 '#', the '-' or '*', and for a checkbox
\* the "[ ]" after it) and the whitespace around the rest; no block's text
\* has leading or trailing whitespace.  The rest may itself begin with marker
\* characters.
C9_OwnMarkerRemoved ==
    pc \in {"parsed", "planned"} =>
        \A i \in 1..Len(blocks) :
            LET b == blocks[i]
                line == SourceLine(md_text, i)
            IN /\ NoEdgeSpace(b.text)
               /\ HasMarker(b.type, line)
               /\ b.text = WithoutMarker(b.type, line)

\* C9 witness: an indented checkbox line whose text keeps nothing of
\* "  - [ ] "
C9_Witness ==
    /\ pc = "parsed"
    /\ \E i \in 1..Len(blocks) :
          /\ blocks[i].type = "checkbox"
          /\ blocks[i].text = <<"a">>
          /\ Len(SourceLine(md_text, i)) > 6

-----------------------------------------------------------------------------
(* Properties of the formatting planner (SpecFormat) *)

RemoteParagraphs == SelectSeq(content, IsParagraphElem)

ExpectedPairs ==
    IF Len(blocks) <= Len(RemoteParagraphs) THEN Len(blocks)
    ELSE Len(RemoteParagraphs)

IsTextLevel(op) == op.request = "updateTextStyle"

\* the request is one that a block of this type gives rise to
DerivedFrom(op, block) ==
    CASE op.request = "deleteParagraphBullets" -> IsHeading(block.type)
      [] op.request = "createParagraphBullets" ->
             /\ IsListType(block.type)
             /\ op.bulletPreset = IF block.type = "checkbox"
                                  THEN "BULLET_CHECKBOX"
                                  ELSE "BULLET_DISC_CIRCLE_SQUARE"
      [] op.request = "updateParagraphStyle" ->
             IF "namedStyleType" \in DOMAIN op
             THEN /\ IsHeading(block.type)
                  /\ op.namedStyleType = HeadingStyle(block.type)
             ELSE /\ IsListType(block.type)
                  /\ op.indentFirstLine = block.level * INDENT_PT
                  /\ op.indentStart = (block.level + 1) * INDENT_PT
      [] op.request = "updateTextStyle" -> TRUE

\* C6: apply_formatting pairs the i-th block with the i-th paragraph element
\* of the listing for i < min(len(blocks), len(paragraphs)): every request
\* belongs to such a pair, is derived from its block and targets its
\* paragraph's range (text-level requests lie at offsets of the paragraph's
\* text from its start); every such pair with a heading, bullet or checkbox
\* block has its requests; nothing beyond the shorter length gets a request.
C6_PositionalPairing ==
    pc = "formatted" =>
        /\ \A k \in 1..Len(fmt_requests) :
              LET op == fmt_requests[k]
              IN /\ op.pair \in 0..(ExpectedPairs - 1)
                 /\ LET p == RemoteParagraphs[op.pair + 1]
                        text == ParagraphText(p.paragraph.elements, 1)
                    IN /\ DerivedFrom(op, blocks[op.pair + 1])
                       /\ IF IsTextLevel(op)
                          THEN /\ p.startIndex <= op.startIndex
                               /\ op.endIndex <= p.startIndex + Len(text)
                          ELSE /\ op.startIndex = p.startIndex
                               /\ op.endIndex = p.endIndex
        /\ \A i \in 0..(ExpectedPairs - 1) :
              ~(blocks[i + 1].type \in {"blank", "paragraph"}) =>
                  \E k \in 1..Len(fmt_requests) :
                      /\ fmt_requests[k].pair = i
                      /\ ~IsTextLevel(fmt_requests[k])

\* C6 witness: two blocks against a listing with a single paragraph after
\* the section break: one pair, the second block without requests
C6_Witness ==
    /\ pc = "formatted"
    /\ Len(blocks) = 2 /\ Len(RemoteParagraphs) = 1 /\ Len(content) = 2
    /\ ~IsParagraphElem(content[1])
    /\ IsHeading(blocks[1].type) /\ IsListType(blocks[2].type)
    /\ Len(fmt_requests) = 2

\* the kind of a request of the batch
OpKind(op) ==
    CASE op.request = "deleteParagraphBullets" -> "clearList"
      [] op.request = "createParagraphBullets" -> "listMembership"
      [] op.request = "updateParagraphStyle" ->
             IF "namedStyleType" \in DOMAIN op THEN "namedStyle"
             ELSE "indentation"
      [] op.request = "updateTextStyle" ->
             IF "italic" \in DOMAIN op THEN "footer" ELSE "assignee"

SameTarget(a, b) ==
    a.pair = b.pair /\ a.startIndex = b.startIndex /\ a.endIndex = b.endIndex

\* request k of the batch is immediately followed (preceded) by one of the
\* kind, on the same pair and range
FollowedBy(k, kind) ==
    /\ k + 1 <= Len(fmt_requests)
    /\ OpKind(fmt_requests[k + 1]) = kind
    /\ SameTarget(fmt_requests[k], fmt_requests[k + 1])

PrecededBy(k, kind) ==
    /\ k > 1
    /\ OpKind(fmt_requests[k - 1]) = kind
    /\ SameTarget(fmt_requests[k], fmt_requests[k - 1])

\* C8: in the batch, for every pair, the paragraph-level requests come before
\* the text-level ones: for a heading the named-style request then the
\* list-clearing request; for a bullet or checkbox the list-membership
\* request immediately followed by the indentation request on the same
\* range; then the assignee requests; then the footer request.
C8_BatchOrder ==
    pc = "formatted" =>
        /\ \A j, k \in 1..Len(fmt_requests) :
              LET a == fmt_requests[j]
                  b == fmt_requests[k]
              IN (j < k /\ a.pair = b.pair) =>
                    /\ ~(IsTextLevel(a) /\ ~IsTextLevel(b))
                    /\ ~(OpKind(a) = "footer" /\ OpKind(b) = "assignee")
        /\ \A k \in 1..Len(fmt_requests) :
              LET kind == OpKind(fmt_requests[k])
              IN /\ kind = "namedStyle" => FollowedBy(k, "clearList")
                 /\ kind = "clearList" => PrecededBy(k, "namedStyle")
                 /\ kind = "listMembership" => FollowedBy(k, "indentation")
                 /\ kind = "indentation" => PrecededBy(k, "listMembership")

\* C8 witness: a pair with list-membership, indentation, assignee and footer
\* requests, after a heading pair
C8_Witness ==
    /\ pc = "formatted"
    /\ Len(fmt_requests) >= 6
    /\ OpKind(fmt_requests[1]) = "namedStyle"
    /\ \E k \in 3..(Len(fmt_requests) - 3) :
          /\ OpKind(fmt_requests[k]) = "listMembership"
          /\ OpKind(fmt_requests[k + 2]) = "assignee"
          /\ OpKind(fmt_requests[Len(fmt_requests)]) = "footer"
          /\ fmt_requests[Len(fmt_requests)].pair = fmt_requests[k].pair

====
